---- MODULE Spec2Model ----
(***************************************************************************)
(* National-ID template creator: the compositing pipeline (main_process of *)
(* flippedcolor.py, flippedblack.py and swapblack.py) and the Telegram     *)
(* front-end of bot.py that stages a workspace, runs the pipeline for the  *)
(* chosen render modes and sends the result files.                         *)
(*                                                                         *)
(* Six specifications share the variables:                                 *)
(*   PipeSpec     one direct call of main_process (the __main__ entry of a *)
(*                variant) in a working directory of arbitrary content;    *)
(*   Spec         the bot: the conversation handlers and the job of the    *)
(*                first accepted upload, with any number of failures;      *)
(*   OverlapSpec  the tasks of NJobs accepted uploads running together,    *)
(*                with at most MaxFaults failures;                         *)
(*   TextSpec     write_pdf_blocks_on_template on pages of bounded texts,  *)
(*                and a second call on the same page;                      *)
(*   DateSpec     extract_dates_from_image on bounded OCR texts;           *)
(*   GateSpec     the conversation handlers alone, for both users, with    *)
(*                every refusal recorded.                                  *)
(***************************************************************************)
EXTENDS Integers, Sequences, FiniteSets, TLC

\* ---------------------------------------------------------------- bounds
\* Jobs that may be alive at once.
NJobs == 2
\* Distinct Telegram file ids an upload may carry.
NFileIds == 2
\* Embedded images on page 1 (above the cap of 5 so that the cap acts).
MaxEmbedded == 6
\* Failures injected while two jobs overlap.
MaxFaults == 1
\* Glyph metrics of the fonts: the width of a character at size 24 and at
\* size 20.5, and bbox("Ay") height + 2 at the two sizes.
CharWidth == 100
SmallCharWidth == 85
LineHeight == 30
SmallLineHeight == 26
\* Longest text of block 34 and of block 35.
MaxText == 5
MaxText35 == 2

\* ------------------------------------------------------ program constants
\* raw_images[:5]
MaxExtract == 5
\* if len(images) < 4
MinImages == 4

Users == {1, 2}
AUTHORIZED_USERS == {1}
FileIds == 1..NFileIds
JobIds == 1..NJobs
WsKeys == Users \X FileIds

TEMPLATE_FILES == {"template_final", "a4"}
Modes == {"color", "black", "swap"}

VARIABLES
    templates,   \* the template files present in the bot's working directory
    state,       \* ConversationHandler state of each user
    user_data,   \* context.user_data["choice"] of each user
    workspace,   \* workspace_<user>_<file id> directories and their files
    temp,        \* the .temp directory: image_1.png .. image_5.png
    job,         \* the jobs: handle_pdf + process_pdf_task + main_process
    budget,      \* failures the environment may still inject (negative: any number)
    replies      \* the refusals the handlers have sent to the chats, where recorded

vars == <<templates, state, user_data, workspace, temp, job, budget, replies>>

Min(a, b) == IF a < b THEN a ELSE b

\* ---------------------------------------------------------------- failures
\* Every call that can raise (file and network I/O, OCR, drawing) has an
\* outcome chosen by the environment; oks lists the outcomes of one step,
\* FALSE for a call that raised.
Cost(oks) == Cardinality({i \in DOMAIN oks : ~oks[i]})

\* The step's failures are within what the environment may still inject.
Pay(oks) ==
    /\ budget < 0 \/ Cost(oks) <= budget
    /\ budget' = IF budget < 0 THEN budget ELSE budget - Cost(oks)

\* No refusal is recorded / none has been sent yet.
NoReplies == [audit |-> FALSE, said |-> {}]
Recorded == [audit |-> TRUE, said |-> {}]

\* reply_text of a refusal to user u, delivered or not.
Refuse(u, what, reply_ok) ==
    replies' = IF replies.audit /\ reply_ok THEN [replies EXCEPT !.said = @ \cup {<<u, what>>}]
               ELSE replies

\* ------------------------------------------------------------------ text
\* A text is a sequence of one-character strings.
Whitespace == {" ", "\t", "\n"}

RECURSIVE LStrip(_)
LStrip(s) == IF s # <<>> /\ Head(s) \in Whitespace THEN LStrip(Tail(s)) ELSE s

RECURSIVE RStrip(_)
RStrip(s) == IF s # <<>> /\ s[Len(s)] \in Whitespace THEN RStrip(SubSeq(s, 1, Len(s) - 1)) ELSE s

\* str.strip()
Strip(s) == RStrip(LStrip(s))

\* str.replace(c, "")
Remove(s, c) == SelectSeq(s, LAMBDA ch : ch # c)

\* str.split(sep): the pieces between the separators, empty ones included.
RECURSIVE SplitOn(_, _)
SplitOn(s, sep) ==
    IF \A i \in 1..Len(s) : s[i] # sep
    THEN <<s>>
    ELSE LET i == CHOOSE k \in 1..Len(s) : s[k] = sep /\ \A l \in 1..(k - 1) : s[l] # sep
         IN  <<SubSeq(s, 1, i - 1)>> \o SplitOn(SubSeq(s, i + 1, Len(s)), sep)

\* str.split(): the runs of non-whitespace characters.
RECURSIVE SplitWs(_)
SplitWs(s) ==
    LET t == LStrip(s) IN
    IF t = <<>> THEN <<>>
    ELSE LET n == IF \A i \in 1..Len(t) : t[i] \notin Whitespace
                  THEN Len(t)
                  ELSE (CHOOSE k \in 1..Len(t) : t[k] \in Whitespace
                                                 /\ \A l \in 1..(k - 1) : t[l] \notin Whitespace) - 1
         IN  <<SubSeq(t, 1, n)>> \o SplitWs(SubSeq(t, n + 1, Len(t)))

\* sep.join(parts)
RECURSIVE Join(_, _)
Join(parts, sep) ==
    IF parts = <<>> THEN <<>>
    ELSE IF Len(parts) = 1 THEN parts[1]
    ELSE parts[1] \o <<sep>> \o Join(Tail(parts), sep)

\* cleaned[1] + cleaned[2] + cleaned[4] + cleaned[5] + cleaned[8] + cleaned[9]
\* + cleaned[13] (0-based)
FanPositions == <<1, 2, 4, 5, 8, 9, 13>>

\* if len(cleaned) >= 14
FanMinLen == 14

\* The picks shifted by one place.
FanDigits_Mutant(cleaned) == [k \in 1..Len(FanPositions) |-> cleaned[FanPositions[k]]]

\* extracted_digits of a cleaned text of at least 14 characters.
FanDigits(cleaned) == [k \in 1..Len(FanPositions) |-> cleaned[FanPositions[k] + 1]]

\* cleaned = pdf_text_blocks[36][4].strip().replace(" ", "")
FanCleaned(text) == Remove(Strip(text), " ")

\* ----------------------------------------------------------------- dates
Digits == {"0", "1", "2", "3", "4", "5", "6", "7", "8", "9"}
UpperCase == <<"A", "B", "C", "D", "E", "F", "G", "H", "I", "J", "K", "L", "M", "N", "O", "P", "Q", "R", "S", "T", "U", "V", "W", "X", "Y", "Z">>
LowerCase == <<"a", "b", "c", "d", "e", "f", "g", "h", "i", "j", "k", "l", "m", "n", "o", "p", "q", "r", "s", "t", "u", "v", "w", "x", "y", "z">>
Letters == {UpperCase[i] : i \in DOMAIN UpperCase} \cup {LowerCase[i] : i \in DOMAIN LowerCase}

\* re.IGNORECASE: a letter and its lower case form match each other.
CaseFold(c) ==
    IF \E i \in DOMAIN UpperCase : UpperCase[i] = c
    THEN LowerCase[CHOOSE i \in DOMAIN UpperCase : UpperCase[i] = c]
    ELSE c

\* The character at position i, or "" past the end.
At(s, i) == IF i \in DOMAIN s THEN s[i] ELSE ""

\* The patterns as character classes: "d" is \d, "a" is [A-Za-z], "/" itself.
EthShape == <<"d", "d", "d", "d", "/", "d", "d", "/", "d", "d">>
EngShape == <<"d", "d", "d", "d", "/", "a", "a", "a", "/", "d", "d">>
ShortShape == <<"d", "d", "/", "d", "d", "/", "d", "d">>

InClass(c, class) ==
    CASE class = "d" -> c \in Digits
      [] class = "a" -> c \in Letters
      [] OTHER       -> c = class

\* The pattern of the shape matches at position i of s.
FitsAt(s, i, shape) ==
    /\ i >= 1
    /\ i + Len(shape) - 1 <= Len(s)
    /\ \A k \in DOMAIN shape : InClass(s[i + k - 1], shape[k])

\* \s* from position i: the position of the first character after it.
RECURSIVE SkipWs(_, _)
SkipWs(s, i) == IF At(s, i) \in Whitespace THEN SkipWs(s, i + 1) ELSE i

\* Where the group of 2\s*0\s*(\d{2}/\d{2}/\d{2}) starts when the pattern
\* matches at position i, 0 when it does not match there.
YearFixAt(s, i) ==
    IF At(s, i) # "2" THEN 0
    ELSE LET j == SkipWs(s, i + 1) IN
         IF At(s, j) # "0" THEN 0
         ELSE LET k == SkipWs(s, j + 1) IN
              IF FitsAt(s, k, ShortShape) THEN k ELSE 0

\* The line left as it is.
RECURSIVE FixYear_Mutant(_, _)
FixYear_Mutant(s, i) == IF i > Len(s) THEN <<>> ELSE <<s[i]>> \o FixYear_Mutant(s, i + 1)

\* re.sub(r"2\s*0\s*(\d{2}/\d{2}/\d{2})", r"20\1", last_line) from position
\* i on: each match, left to right, is replaced by "20" and its group.
RECURSIVE FixYear(_, _)
FixYear(s, i) ==
    IF i > Len(s) THEN <<>>
    ELSE LET k == YearFixAt(s, i) IN
         IF k # 0
         THEN <<"2", "0">> \o SubSeq(s, k, k + Len(ShortShape) - 1) \o FixYear(s, k + Len(ShortShape))
         ELSE <<s[i]>> \o FixYear(s, i + 1)

\* The value None of a date.
None == <<>>

\* re.search(r"(\d{4}/\d{2}/\d{2})\s*\|\s*(\d{4}/[A-Za-z]{3}/\d{2})", s)
\* from position i on: the groups of the leftmost match.
RECURSIVE SearchPiped(_, _)
SearchPiped(s, i) ==
    IF i > Len(s) THEN <<None, None>>
    ELSE LET j == SkipWs(s, i + Len(EthShape))
             k == SkipWs(s, j + 1)
         IN  IF FitsAt(s, i, EthShape) /\ At(s, j) = "|" /\ FitsAt(s, k, EngShape)
             THEN <<SubSeq(s, i, i + Len(EthShape) - 1), SubSeq(s, k, k + Len(EngShape) - 1)>>
             ELSE SearchPiped(s, i + 1)

\* The first group alone when nothing follows it.
RECURSIVE SearchSpanned_Mutant(_, _)
SearchSpanned_Mutant(s, i) ==
    IF i > Len(s) THEN <<None, None>>
    ELSE IF FitsAt(s, i, EthShape) THEN <<SubSeq(s, i, i + Len(EthShape) - 1), None>>
    ELSE SearchSpanned_Mutant(s, i + 1)

\* re.search(r"(\d{4}/\d{2}/\d{2}).*(\d{4}/[A-Za-z]{3}/\d{2})", s) from
\* position i on: the leftmost first group, and with the greedy .* the
\* rightmost second group after it.
RECURSIVE SearchSpanned(_, _)
SearchSpanned(s, i) ==
    IF i > Len(s) THEN <<None, None>>
    ELSE LET ends == {k \in (i + Len(EthShape))..Len(s) : FitsAt(s, k, EngShape)} IN
         IF FitsAt(s, i, EthShape) /\ ends # {}
         THEN LET k == CHOOSE e \in ends : \A f \in ends : f <= e
              IN  <<SubSeq(s, i, i + Len(EthShape) - 1), SubSeq(s, k, k + Len(EngShape) - 1)>>
         ELSE SearchSpanned(s, i + 1)

\* The word matches at position i of s, whatever the case of the letters.
WordAt(s, i, word) ==
    /\ i + Len(word) - 1 <= Len(s)
    /\ \A k \in DOMAIN word : CaseFold(s[i + k - 1]) = word[k]

\* re.search(r"Date\s*of\s*Issue", line, re.IGNORECASE)
HasLabel(line) ==
    \E i \in DOMAIN line :
        /\ WordAt(line, i, <<"d", "a", "t", "e">>)
        /\ LET j == SkipWs(line, i + 4) IN
           /\ WordAt(line, j, <<"o", "f">>)
           /\ WordAt(line, SkipWs(line, j + 2), <<"i", "s", "s", "u", "e">>)

\* [line for line in text.splitlines() if line.strip()]
NonEmptyLines(text) == SelectSeq(SplitOn(text, "\n"), LAMBDA line : Strip(line) # <<>>)

\* The line the dates are looked for in, if there is one: the last non-empty
\* line in flippedblack, the first stripped line with the label in
\* flippedcolor.
TargetLine(mode, text) ==
    LET lines == NonEmptyLines(text) IN
    IF mode = "black"
    THEN (IF lines = <<>> THEN <<>> ELSE <<lines[Len(lines)]>>)
    ELSE LET labelled == SelectSeq(lines, HasLabel)
         IN  IF labelled = <<>> THEN <<>> ELSE <<Strip(labelled[1])>>

\* re.sub(r"[^\w:/]", "", doi_line)
CleanedLine(line) == SelectSeq(line, LAMBDA c : c \in Digits \cup Letters \cup {"_", ":", "/"})

\* The line as it is searched: after the re.sub of the variant.
Searched(mode, line) == IF mode = "black" THEN FixYear(line, 1) ELSE CleanedLine(line)

\* extract_dates_from_image of the variant on the text OCR gives.
ExtractDates(mode, text) ==
    LET target == TargetLine(mode, text) IN
    IF target = <<>> THEN <<None, None>>
    ELSE IF mode = "black" THEN SearchPiped(Searched(mode, target[1]), 1)
    ELSE SearchSpanned(Searched(mode, target[1]), 1)

\* ----------------------------------------------------------- text blocks
\* block_to_png_mapping of write_pdf_blocks_on_template, the same in the
\* three variants.
block_to_png_mapping ==
    << [idx |-> 29, x |-> 355, y |-> 268, w |-> 200, h |-> 30],
       [idx |-> 30, x |-> 355, y |-> 324, w |-> 200, h |-> 30],
       [idx |-> 31, x |-> 960, y |-> 146, w |-> 300, h |-> 30],
       [idx |-> 32, x |-> 960, y |-> 67,  w |-> 300, h |-> 30],
       [idx |-> 33, x |-> 960, y |-> 200, w |-> 300, h |-> 30],
       [idx |-> 34, x |-> 961, y |-> 286, w |-> 378, h |-> 76],
       [idx |-> 35, x |-> 961, y |-> 362, w |-> 377, h |-> 82],
       [idx |-> 37, x |-> 355, y |-> 158, w |-> 200, h |-> 30] >>

single_line_blocks == {29, 30, 31}

\* The block indices the stage looks at (the mapped ones and block 36).
BlockIds == 29..37

\* bbox[2] - bbox[0] of font.getbbox(s) for a font whose glyphs are cw wide.
Width(s, cw) == Len(s) * cw

\* flippedblack: `for word in line.split(" ")` -- the greedy packing of the
\* words of one text line; gives the lines closed so far and current_line.
RECURSIVE PackWords(_, _, _, _, _)
PackWords(words, current_line, lines, cw, max_width) ==
    IF words = <<>> THEN [lines |-> lines, current_line |-> current_line]
    ELSE LET word      == Head(words)
             test_line == current_line \o (IF current_line # <<>> THEN <<" ">> ELSE <<>>) \o word
         IN  IF Width(test_line, cw) > max_width
             THEN PackWords(Tail(words), word,
                            IF current_line # <<>> THEN Append(lines, current_line) ELSE lines,
                            cw, max_width)
             ELSE PackWords(Tail(words), test_line, lines, cw, max_width)

\* flippedblack: `for line in text.split("\n")` around the word loop; the
\* line in progress is closed at the end of each text line.
RECURSIVE WrapWords(_, _, _, _)
WrapWords(text_lines, lines, cw, max_width) ==
    IF text_lines = <<>> THEN lines
    ELSE LET p == PackWords(SplitOn(Head(text_lines), " "), <<>>, lines, cw, max_width)
         IN  WrapWords(Tail(text_lines),
                       IF p.current_line # <<>> THEN Append(p.lines, p.current_line) ELSE p.lines,
                       cw, max_width)

\* flippedcolor, swapblack: `for char in line` with its break -- the
\* characters of the line that fit; the rest of the line is left out.
RECURSIVE PackChars(_, _, _, _)
PackChars(line, current_text, cw, max_width) ==
    IF line = <<>> THEN current_text
    ELSE LET test_text == Append(current_text, Head(line))
         IN  IF Width(test_text, cw) > max_width
             THEN current_text
             ELSE PackChars(Tail(line), test_text, cw, max_width)

\* One draw.text call: the block it is for, where, what, and the glyph width
\* of the font used.
TextOp(idx, x, y, text, cw) == [block |-> idx, x |-> x, y |-> y, text |-> text, cw |-> cw]

\* draw.text((x, y + i * line_height), line, ...) for i, line in enumerate(lines)
DrawLines(idx, x, y, lines, line_height, cw) ==
    [i \in 1..Len(lines) |-> TextOp(idx, x, y + (i - 1) * line_height, lines[i], cw)]

\* The font of block 34 in flippedblack: size 20.5 when the whole text is
\* wider than the room at size 24 (and the font file loads).
Font34(text, max_width, small_ok) ==
    IF Width(text, CharWidth) > max_width /\ small_ok THEN SmallCharWidth ELSE CharWidth

\* bbox("Ay") height + 2 of the font with glyph width cw.
LineHeightOf(cw) == IF cw = SmallCharWidth THEN SmallLineHeight ELSE LineHeight

\* lines[:max_lines] with max_lines = h // line_height
Capped(lines, h, line_height) == SubSeq(lines, 1, Min(Len(lines), h \div line_height))

\* The characters of each text line that fit, one drawn line per text line.
CutLines(text, cw, max_width) ==
    LET text_lines == SplitOn(text, "\n")
    IN  [i \in 1..Len(text_lines) |-> PackChars(text_lines[i], <<>>, cw, max_width)]

\* `if idx == 34:` -- the draw.text calls for block 34 with stripped text.
Block34(mode, m, text, small_ok) ==
    LET max_width == 1335 - m.x IN
    IF mode = "black"
    THEN LET cw == Font34(text, max_width, small_ok)
         IN  DrawLines(34, m.x, m.y,
                       Capped(WrapWords(SplitOn(text, "\n"), <<>>, cw, max_width),
                              m.h, LineHeightOf(cw)),
                       LineHeightOf(cw), cw)
    ELSE DrawLines(34, m.x, m.y, CutLines(text, CharWidth, max_width), LineHeight, CharWidth)

\* `if idx == 35:` -- the draw.text calls for block 35 with stripped text.
Block35(mode, m, text) ==
    LET max_width == 1335 - m.x IN
    IF mode = "black"
    THEN DrawLines(35, m.x, m.y,
                   Capped(WrapWords(SplitOn(text, "\n"), <<>>, CharWidth, max_width),
                          m.h, LineHeight),
                   LineHeight, CharWidth)
    ELSE DrawLines(35, m.x, m.y, CutLines(text, CharWidth, max_width), LineHeight, CharWidth)

\* "adjust block 35 position" at the end of the block 34 branch of
\* flippedblack and flippedcolor; swapblack has no such code.
AdjustBlock35(mode, mapping, text) ==
    IF mode = "swap" THEN mapping
    ELSE [k \in DOMAIN mapping |->
            IF mapping[k].idx = 35
            THEN [mapping[k] EXCEPT !.y = IF \E i \in DOMAIN text : text[i] = "\n" THEN 385 ELSE 362]
            ELSE mapping[k]]

\* Only a block index past the end is skipped.
Skipped_Mutant(idx, page) == idx >= page.len

\* if idx >= len(pdf_text_blocks): continue / if not text: continue (text is
\* the stripped text of the block)
Skipped(idx, page) == idx >= page.len \/ Strip(page.text[idx]) = <<>>

\* `for mapping in block_to_png_mapping:` from entry k on, with the table as
\* it is by then and the draw.text calls made so far.
RECURSIVE DrawMapped(_, _, _, _, _, _)
DrawMapped(k, mapping, ops, mode, page, small_ok) ==
    IF k > Len(mapping) THEN ops
    ELSE LET m    == mapping[k]
             text == Strip(page.text[m.idx])
         IN  IF Skipped(m.idx, page)
             THEN DrawMapped(k + 1, mapping, ops, mode, page, small_ok)
             ELSE IF m.idx = 34
             THEN DrawMapped(k + 1, AdjustBlock35(mode, mapping, text),
                             ops \o Block34(mode, m, text, small_ok), mode, page, small_ok)
             ELSE IF m.idx = 35
             THEN DrawMapped(k + 1, mapping, ops \o Block35(mode, m, text), mode, page, small_ok)
             ELSE DrawMapped(k + 1, mapping,
                             Append(ops, TextOp(m.idx, m.x, m.y,
                                                IF m.idx \in single_line_blocks
                                                THEN Join(SplitWs(text), "|")
                                                ELSE text,
                                                CharWidth)),
                             mode, page, small_ok)

\* "Special 7-digit extraction from block 36"
FanOp(page) ==
    LET cleaned == FanCleaned(page.text[36]) IN
    IF 36 < page.len /\ Len(cleaned) >= FanMinLen
    THEN <<TextOp(36, 1677, 511, FanDigits(cleaned), CharWidth)>>
    ELSE <<>>

\* The draw.text calls of one write_pdf_blocks_on_template call, in order;
\* the mapping table is built anew by each call.
DrawBlocks(mode, page, small_ok) ==
    DrawMapped(1, block_to_png_mapping, <<>>, mode, page, small_ok) \o FanOp(page)

\* flippedblack loads the size 20.5 font when block 34 is drawn and is wider
\* at size 24 than the room up to the margin.
LoadsSmallFont(mode, page) ==
    /\ mode = "black"
    /\ 34 < page.len
    /\ Width(Strip(page.text[34]), CharWidth) > 1335 - 961

\* A page of which the stage reads nothing (no text blocks).
NoPage == [len |-> 0, text |-> [i \in BlockIds |-> <<>>]]

\* ------------------------------------------------------------ file names
\* bot.py: NID_<mode>_<file id>.png, NIDA4_<mode>_<file id>.png inside the
\* workspace; the file id is the workspace's, so the mode names the file.
Merged(m) == CASE m = "color" -> "NID_color"
               [] m = "black" -> "NID_black"
               [] OTHER       -> "NID_swap"

Framed(m) == CASE m = "color" -> "NIDA4_color"
               [] m = "black" -> "NIDA4_black"
               [] OTHER       -> "NIDA4_swap"

OutputNames == {Merged(m) : m \in Modes} \cup {Framed(m) : m \in Modes}
FileNames == {"input_pdf"} \cup TEMPLATE_FILES \cup OutputNames

\* bot.py imports flippedcolor and flippedblack; swapblack runs standalone.
Variant(m) == CASE m = "color" -> "flippedcolor"
                [] m = "black" -> "flippedblack"
                [] OTHER       -> "swapblack"

NoDir == [exists |-> FALSE, files |-> {}]

\* ------------------------------------------------------ the pipeline run
\* One call of main_process: where it is, and what it has done so far.
NoRun == [pc       |-> "idle",
          mode     |-> "none",
          audit    |-> FALSE,      \* record degradations too, not only failures
          images   |-> 0,          \* len(images) returned by extract_images
          doc      |-> "unopened", \* unopened | open | closed
          stages   |-> <<>>,       \* the stages entered, in order
          faults   |-> {},         \* what went wrong or degraded
          eth_date |-> "None",
          eng_date |-> "None",
          dates    |-> "none",     \* none | drawn | placeholder
          wrote    |-> {},         \* output files this call has written
          page     |-> NoPage,     \* pdf_page.get_text("blocks"): their number, their texts
          canvas   |-> <<>>,       \* the draw.text calls of the text block stage
          small    |-> TRUE,       \* whether the size 20.5 font loaded
          first    |-> <<>>,       \* the canvas and font of the previous call, if any
          ocr      |-> <<>>,       \* pytesseract.image_to_string(img) of the date raster
          found    |-> <<>>,       \* what extract_dates_from_image returned, if called
          rasters  |-> <<>>,       \* the list extract_images returned
          embedded |-> 0]          \* len(page.get_images(full=True)), for the properties

StartRun(m, audit) == [NoRun EXCEPT !.pc = "open", !.mode = m, !.audit = audit]

Running(r) == r.pc \notin {"idle", "returned", "raised"}

Enter(r, stage) == [r EXCEPT !.stages = Append(@, stage)]
\* What ends a call or makes a stage report failure.  The rest (empty OCR
\* text, no date found, the fallback font, a swallowed date error) degrades
\* the canvas only, and is recorded for an audited call.
StageFailures == {"open_failed", "makedirs_raised", "extract_error", "too_few",
                  "index_error", "portrait_failed", "region_failed",
                  "region_ocr_raised", "date_render_raised", "blocks_raised",
                  "save_failed", "flip_failed"}

Fault(r, f) == IF r.audit \/ f \in StageFailures THEN [r EXCEPT !.faults = @ \cup {f}] ELSE r
Drawn(r, d) == IF r.audit THEN [r EXCEPT !.dates = d] ELSE r
Return(r) == [r EXCEPT !.pc = "returned"]
Raise(r) == [r EXCEPT !.pc = "raised"]

HasFile(k, f) == workspace[k].exists /\ f \in workspace[k].files
HasImage(i) == temp.exists /\ temp.img[i] # 0

\* --------------------------------------------------------------- the jobs
\* A job: one accepted upload.  pc is its place in handle_pdf /
\* process_pdf_task ("free": the slot is unused; "standalone": main_process
\* was called directly, not by the bot).
FreeJob == [pc      |-> "free",
            user    |-> 1,
            ws      |-> <<1, 1>>,  \* workspace_<user>_<file id>
            choice  |-> "none",    \* user_choice
            paths   |-> {},        \* template keys present in workspace_paths
            mode    |-> "none",    \* the render mode being processed
            files   |-> <<>>,      \* output_files_to_send
            next    |-> 1,         \* place of the send loop in it
            msgs    |-> {},        \* messages delivered to the chat
            exc     |-> FALSE,     \* an exception is leaving the coroutine
            run     |-> NoRun,     \* the main_process call in progress
            \* what has happened, for the properties:
            ran     |-> {},        \* modes whose main_process was called
            out     |-> {},        \* output files its calls have written
            noout   |-> {},        \* modes that ended with neither output file present
            good    |-> {},        \* modes whose call returned with no stage failure
            tried   |-> {},        \* files whose sending was attempted
            sent    |-> {},        \* files delivered
            cleaned |-> {}]        \* directories whose removal was attempted

Ws(j) == job[j].ws
SetRun(j, r) == job' = [job EXCEPT ![j].run = r]

\* ------------------------------------------------------------ main_process
\* fitz.open(pdf_path): failure is logged and main_process returns.
fitz_open(j) ==
    LET r == job[j].run IN
    /\ r.pc = "open"
    /\ \E ok \in BOOLEAN :
         /\ Pay(<<ok>>)
         /\ IF ok /\ HasFile(Ws(j), "input_pdf")
            THEN SetRun(j, [r EXCEPT !.pc = "extract", !.doc = "open"])
            ELSE SetRun(j, Return(Fault(r, "open_failed")))
    /\ UNCHANGED <<replies, templates, state, user_data, workspace, temp>>

\* len(images) for a page with `embedded` images when the loop body raises
\* while handling image number failAt + 1 (failAt = MaxExtract: no error;
\* failAt = 0 also stands for pdf_doc[0] or get_images raising).
ExtractCount(embedded, failAt) == Min(Min(embedded, MaxExtract), failAt)

\* The rasters saved in reverse order of embedding.
Rasters_Mutant(n) == [i \in 1..n |-> [path |-> i, image |-> n + 1 - i]]

\* for i, img in enumerate(raw_images[:5], start=1): the list of the n paths
\* appended; image_<i>.png is saved from the pixmap of the i-th embedded
\* image.
Rasters(n) == [i \in 1..n |-> [path |-> i, image |-> i]]

\* The length check one image short.
TooFewImages_Mutant(n) == n < MinImages - 1

\* if len(images) < 4: return
TooFewImages(n) == n < MinImages

\* extract_images(pdf_doc) and the length check that follows it.  makedirs
\* is outside the try; everything else is caught and the images saved so
\* far are returned.  image_i.png in .temp is (over)written by this job.
extract_images(j) ==
    LET r == job[j].run IN
    /\ r.pc = "extract"
    /\ \E makedirs_ok \in BOOLEAN, embedded \in 0..MaxEmbedded, failAt \in 0..MaxExtract :
         /\ Pay(<<makedirs_ok, failAt >= Min(embedded, MaxExtract)>>)
         /\ IF ~makedirs_ok
            THEN /\ SetRun(j, Raise(Fault(Enter(r, "extract"), "makedirs_raised")))
                 /\ UNCHANGED temp
            ELSE LET n  == ExtractCount(embedded, failAt)
                     r1 == [Enter(r, "extract") EXCEPT !.images = n, !.rasters = Rasters(n),
                                                       !.embedded = IF r.audit THEN embedded ELSE 0]
                     r2 == IF n < Min(embedded, MaxExtract) THEN Fault(r1, "extract_error") ELSE r1
                 IN  /\ temp' = [exists |-> TRUE,
                                 img    |-> [i \in 1..MaxExtract |-> IF i <= n THEN j ELSE temp.img[i]]]
                     /\ SetRun(j, IF TooFewImages(n)
                                  THEN Return(Fault(r2, "too_few"))
                                  ELSE [r2 EXCEPT !.pc = "portrait"])
    /\ UNCHANGED <<replies, templates, state, user_data, workspace>>

\* The extracted raster process_image1_and_2 is given: images[2] in
\* flippedblack, images[3] in swapblack, none in flippedcolor (1-based here).
PortraitSource(m) == CASE m = "black" -> 3
                       [] m = "swap"  -> 4
                       [] OTHER       -> 0

\* The stage that follows, per variant.
AfterRegion(m) == IF m = "black" THEN "dates" ELSE "blocks"
AfterDates(m) == IF m = "black" THEN "blocks" ELSE "save"
AfterBlocks(m) == IF m = "color" THEN "dates" ELSE "save"

\* The call goes on to the next stage although the compositor gave None.
NoCanvas_Mutant(r, f) == [Fault(r, f) EXCEPT !.pc = IF f = "portrait_failed" THEN "region"
                                                    ELSE AfterRegion(r.mode)]

\* `if not final_image: return` after a compositor that returned None.
NoCanvas(r, f) == Return(Fault(r, f))

\* process_image1_and_2: the whole body is in a try; any error gives None
\* and main_process returns.
process_image1_and_2(j) ==
    LET r   == job[j].run
        src == PortraitSource(r.mode)
        r1  == Enter(r, "portrait")
    IN
    /\ r.pc = "portrait"
    /\ \E ok \in BOOLEAN :
         /\ Pay(<<ok>>)
         /\ IF src > r.images
            THEN SetRun(j, Raise(Fault(r, "index_error")))
            ELSE IF ok /\ HasFile(Ws(j), "template_final") /\ (src = 0 \/ HasImage(src))
            THEN SetRun(j, [r1 EXCEPT !.pc = "region"])
            ELSE SetRun(j, NoCanvas(r1, "portrait_failed"))
    /\ UNCHANGED <<replies, templates, state, user_data, workspace, temp>>

\* process_image3_image4_with_ocr(final_image, images[2], images[3]): the
\* OCR calls are inside the stage's single try, so an OCR error gives None.
process_image3_image4_with_ocr(j) ==
    LET r  == job[j].run
        r1 == Enter(r, "region")
    IN
    /\ r.pc = "region"
    /\ \E ocr \in {"text", "empty", "raise"}, ok \in BOOLEAN :
         /\ Pay(<<ok, ocr # "raise">>)
         /\ IF 4 > r.images
            THEN SetRun(j, Raise(Fault(r, "index_error")))
            ELSE IF ~ok \/ ~HasImage(3) \/ ~HasImage(4)
            THEN SetRun(j, NoCanvas(r1, "region_failed"))
            ELSE IF ocr = "raise"
            THEN SetRun(j, NoCanvas(r1, "region_ocr_raised"))
            ELSE SetRun(j, [(IF ocr = "empty" THEN Fault(r1, "ocr_empty") ELSE r1)
                               EXCEPT !.pc = AfterRegion(r.mode)])
    /\ UNCHANGED <<replies, templates, state, user_data, workspace, temp>>

\* What pytesseract gives extract_dates_from_image: a line with the two date
\* tokens, text without them, no text at all, or an error.
DateOcr == {"match", "nomatch", "nolines", "raise"}

\* extract_dates_from_image: (eth_date, eng_date), or (None, None) when
\* nothing matches; its body is in a try that also returns (None, None).
DatePair(ocr) == IF ocr = "match" THEN <<"eth", "eng">> ELSE <<"None", "None">>

\* flippedblack main_process: eth_date, eng_date = extract_dates_from_image(images[2])
\* and the test `if eth_date or eng_date` that follows.
extract_dates_from_image(j) ==
    LET r  == job[j].run
        r1 == Enter(r, "dates")
    IN
    /\ r.pc = "dates"
    /\ r.mode = "black"
    /\ \E ocr \in DateOcr :
         /\ Pay(<<ocr # "raise">>)
         /\ LET d  == DatePair(ocr)
                r2 == [r1 EXCEPT !.eth_date = d[1], !.eng_date = d[2]]
                r3 == CASE ocr = "raise"   -> Fault(r2, "date_ocr_raised")
                        [] ocr = "match"   -> r2
                        [] OTHER           -> Fault(r2, "date_not_found")
            IN  SetRun(j, [r3 EXCEPT !.pc = IF d[1] # "None" \/ d[2] # "None"
                                            THEN "write_dates"
                                            ELSE AfterDates(r.mode)])
    /\ UNCHANGED <<replies, templates, state, user_data, workspace, temp>>

\* flippedblack write_dates_on_template: the font load falls back, the two
\* draw_vertical_text calls are not in a try.  drawn: how many of them
\* completed before one raised (2: none raised).
write_dates_on_template(j) ==
    LET r == job[j].run IN
    /\ r.pc = "write_dates"
    /\ \E font_ok \in BOOLEAN, drawn \in 0..2 :
         /\ Pay(<<font_ok, drawn = 2>>)
         /\ LET r1 == IF font_ok THEN r ELSE Fault(r, "font_fallback") IN
            IF drawn = 2
            THEN SetRun(j, [Drawn(r1, "drawn") EXCEPT !.pc = AfterDates(r.mode)])
            ELSE SetRun(j, Raise(Fault(Drawn(r1, IF drawn = 0 THEN "none" ELSE "partial"),
                                       "date_render_raised")))
    /\ UNCHANGED <<replies, templates, state, user_data, workspace, temp>>

\* flippedcolor process_dates_from_image: extraction, placeholders for the
\* missing dates and both draws are in one try that returns template_img.
process_dates_from_image(j) ==
    LET r  == job[j].run
        r1 == Enter(r, "dates")
    IN
    /\ r.pc = "dates"
    /\ r.mode = "color"
    /\ \E ocr \in DateOcr, font_ok \in BOOLEAN, drawn \in 0..2 :
         /\ Pay(<<ocr # "raise", font_ok, drawn = 2>>)
         /\ LET d  == DatePair(ocr)
                r2 == [r1 EXCEPT !.eth_date = d[1], !.eng_date = d[2]]
                r3 == CASE ocr = "raise"   -> Fault(r2, "date_ocr_raised")
                        [] ocr = "match"   -> r2
                        [] OTHER           -> Fault(r2, "date_not_found")
                r4 == IF font_ok THEN r3 ELSE Fault(r3, "font_fallback")
                r5 == IF drawn = 2
                      THEN Drawn(r4, IF d[1] = "None" THEN "placeholder" ELSE "drawn")
                      ELSE Fault(Drawn(r4, IF drawn = 0 THEN "none" ELSE "partial"),
                                 "date_render_raised")
            IN  SetRun(j, [r5 EXCEPT !.pc = AfterDates(r.mode)])
    /\ UNCHANGED <<replies, templates, state, user_data, workspace, temp>>

\* write_pdf_blocks_on_template: no try around load_page, get_text or the
\* drawing, so an error leaves main_process (the document stays open).
write_pdf_blocks_on_template(j) ==
    LET r  == job[j].run
        r1 == Enter(r, "blocks")
    IN
    /\ r.pc = "blocks"
    /\ \E ok \in BOOLEAN, small_ok \in (IF LoadsSmallFont(r.mode, r.page) THEN BOOLEAN ELSE {TRUE}) :
         /\ Pay(<<ok>>)
         /\ IF ok
            THEN SetRun(j, [r1 EXCEPT !.pc = AfterBlocks(r.mode),
                                      !.small = small_ok,
                                      !.canvas = @ \o DrawBlocks(r.mode, r.page, small_ok)])
            ELSE SetRun(j, Raise(Fault(r1, "blocks_raised")))
    /\ UNCHANGED <<replies, templates, state, user_data, workspace, temp>>

\* except Exception as e: log("Main", "Error saving merged output") -- the
\* call goes on to the A4 step.
SaveFailed(r) == Fault(r, "save_failed")

\* main_process: final_image.save(output_path) in try / except / finally
\* pdf_doc.close().
save_merged(j) ==
    LET r  == job[j].run
        r1 == [Enter(r, "finisher") EXCEPT !.doc = "closed", !.pc = "flip"]
        f  == Merged(r.mode)
    IN
    /\ r.pc = "save"
    /\ \E ok \in BOOLEAN :
         /\ Pay(<<ok>>)
         /\ IF ok /\ workspace[Ws(j)].exists
            THEN /\ workspace' = [workspace EXCEPT ![Ws(j)].files = @ \cup {f}]
                 /\ SetRun(j, [r1 EXCEPT !.wrote = @ \cup {f}])
            ELSE /\ UNCHANGED workspace
                 /\ SetRun(j, SaveFailed(r1))
    /\ UNCHANGED <<replies, templates, state, user_data, temp>>

\* The A4 step without its try: the error leaves main_process.
FlipFailed_Mutant(r) == Raise(Fault(r, "flip_failed"))

\* except Exception as e: log("Step 5", "Error") -- flip_and_place_on_a4
\* returns, and main_process after it.
FlipFailed(r) == Return(Fault(r, "flip_failed"))

\* The framed file is made from the A4 template alone.
CanFrame_Mutant(k, m) == HasFile(k, "a4")

\* Image.open(a4_template_path) and Image.open(source_img_path): both files
\* have to be there.
CanFrame(k, m) == HasFile(k, Merged(m)) /\ HasFile(k, "a4")

\* flip_and_place_on_a4(output_path, a4_template_path, output_a4_path): opens
\* the merged file and the A4 template, saves the framed file; the whole
\* body is in a try.  main_process returns after it.
flip_and_place_on_a4(j) ==
    LET r == job[j].run
        f == Framed(r.mode)
    IN
    /\ r.pc = "flip"
    /\ \E ok \in BOOLEAN :
         /\ Pay(<<ok>>)
         /\ IF ok /\ CanFrame(Ws(j), r.mode)
            THEN /\ workspace' = [workspace EXCEPT ![Ws(j)].files = @ \cup {f}]
                 /\ SetRun(j, Return([r EXCEPT !.wrote = @ \cup {f}]))
            ELSE /\ UNCHANGED workspace
                 /\ SetRun(j, FlipFailed(r))
    /\ UNCHANGED <<replies, templates, state, user_data, temp>>

\* One step of a main_process call of job j.
main_process(j) ==
    \/ fitz_open(j)
    \/ extract_images(j)
    \/ process_image1_and_2(j)
    \/ process_image3_image4_with_ocr(j)
    \/ extract_dates_from_image(j)
    \/ write_dates_on_template(j)
    \/ process_dates_from_image(j)
    \/ write_pdf_blocks_on_template(j)
    \/ save_merged(j)
    \/ flip_and_place_on_a4(j)

\* The extracted rasters (1-based) a call at r.pc has yet to read:
\* images[2] and images[3] by the region stage (images[2] also by the
\* portrait stage of flippedblack, images[3] by that of swapblack), then
\* images[2] by the date stage of flippedblack and flippedcolor.
StillReads(r) ==
    CASE r.pc \in {"portrait", "region"}                   -> {3, 4}
      [] r.pc = "dates" /\ r.mode \in {"black", "color"}   -> {3}
      [] r.pc = "blocks" /\ r.mode = "color"               -> {3}
      [] OTHER                                             -> {}

\* ------------------------------------------------- a direct call (__main__)
\* The first page of the document of a direct call: no text block at all,
\* or 31 blocks of which block 29 has a text and block 30 only blanks (the
\* mapped blocks from 31 on are then out of range).
PipePages ==
    {NoPage,
     [len |-> 31, text |-> [i \in BlockIds |-> IF i = 29 THEN <<"a">>
                                               ELSE IF i = 30 THEN <<" ", " ">> ELSE <<>>]]}

\* main_process(input_pdf, template_image, output_image, a4_template_image,
\* output_a4) of one variant, in a directory holding any of the files.
PipeInit ==
    /\ replies = NoReplies
    /\ budget = 0 - 1
    /\ templates = TEMPLATE_FILES
    /\ state = [u \in Users |-> "END"]
    /\ user_data = [u \in Users |-> "none"]
    /\ temp = [exists |-> FALSE, img |-> [i \in 1..MaxExtract |-> 0]]
    /\ \E m \in Modes, page \in PipePages :
       \E fs \in SUBSET ({"input_pdf", Merged(m), Framed(m)} \cup TEMPLATE_FILES) :
         /\ workspace = [k \in WsKeys |-> IF k = <<1, 1>> THEN [exists |-> TRUE, files |-> fs] ELSE NoDir]
         /\ job = [j \in JobIds |-> IF j = 1
                                    THEN [FreeJob EXCEPT !.pc = "standalone",
                                                         !.run = [StartRun(m, TRUE) EXCEPT !.page = page]]
                                    ELSE FreeJob]

PipeNext == main_process(1)

PipeSpec == PipeInit /\ [][PipeNext]_vars

\* ------------------------------------------------- the text block stage
\* All texts over an alphabet up to n characters long.
Texts(alphabet, n) == UNION {[1..k -> alphabet] : k \in 0..n}

\* Texts of blocks 34 and 35: words, spaces, line breaks.
WrapAlphabet == {"a", " ", "\n"}

\* Texts of block 36: a run of distinct characters, of 12 to 16 of them,
\* as it is or with one whitespace character put in anywhere.
FanBase == <<"A", "1", "B", "2", "C", "3", "D", "4", "E", "5", "F", "6", "G", "7", "H", "8">>

FanTexts ==
    LET runs == {SubSeq(FanBase, 1, n) : n \in (FanMinLen - 2)..Len(FanBase)}
    IN  runs \cup UNION {{SubSeq(t, 1, p) \o <<ch>> \o SubSeq(t, p + 1, Len(t)) :
                             p \in 0..Len(t), ch \in Whitespace} : t \in runs}

\* Pages that have block 36 (and a single-line block 29).
FanPages ==
    {[len  |-> n,
      text |-> [i \in BlockIds |-> IF i = 36 THEN t ELSE IF i = 29 THEN s ELSE <<>>]] :
         n \in {36, 37}, t \in FanTexts, s \in {<<>>, <<"a", " ", " ", "b">>}}

\* Pages whose last blocks are 33, 34 or 35, with texts in blocks 34 and 35.
WrapPages ==
    {[len  |-> n,
      text |-> [i \in BlockIds |-> IF i = 34 THEN t ELSE IF i = 35 THEN u ELSE <<>>]] :
         n \in {34, 35, 36}, t \in Texts(WrapAlphabet, MaxText), u \in Texts(WrapAlphabet, MaxText35)}

\* The stages a call has been through when it enters the text block stage.
StagesBefore(m) ==
    IF m = "black" THEN <<"extract", "portrait", "region", "dates">>
    ELSE <<"extract", "portrait", "region">>

\* main_process has reached write_pdf_blocks_on_template(pdf_doc, final_image).
AtBlocks(m, page) ==
    [StartRun(m, TRUE) EXCEPT !.pc = "blocks", !.doc = "open", !.images = MinImages,
                              !.stages = StagesBefore(m), !.page = page]

\* The second call begun with the canvas of the first.
SecondCall_Mutant(r) ==
    [AtBlocks(r.mode, r.page) EXCEPT !.canvas = r.canvas,
                                     !.first = <<[canvas |-> r.canvas, small |-> r.small]>>]

\* main_process called again on the same document: a new canvas is opened
\* from the template; what the first call drew is kept for comparison.
SecondCall(r) ==
    [AtBlocks(r.mode, r.page) EXCEPT !.first = <<[canvas |-> r.canvas, small |-> r.small]>>]

\* The caller runs main_process a second time after the first call's text
\* block stage.
second_call(j) ==
    LET r == job[j].run IN
    /\ job[j].pc = "standalone"
    /\ r.pc = AfterBlocks(r.mode)
    /\ r.first = <<>>
    /\ SetRun(j, SecondCall(r))
    /\ UNCHANGED <<replies, templates, state, user_data, workspace, temp, budget>>

TextInit ==
    /\ replies = NoReplies
    /\ budget = 0 - 1
    /\ templates = TEMPLATE_FILES
    /\ state = [u \in Users |-> "END"]
    /\ user_data = [u \in Users |-> "none"]
    /\ temp = [exists |-> TRUE, img |-> [i \in 1..MaxExtract |-> IF i <= MinImages THEN 1 ELSE 0]]
    /\ workspace = [k \in WsKeys |-> IF k = <<1, 1>>
                                     THEN [exists |-> TRUE, files |-> TEMPLATE_FILES \cup {"input_pdf"}]
                                     ELSE NoDir]
    /\ \E m \in Modes, page \in FanPages \cup WrapPages :
         job = [j \in JobIds |-> IF j = 1
                                 THEN [FreeJob EXCEPT !.pc = "standalone", !.run = AtBlocks(m, page)]
                                 ELSE FreeJob]

TextNext == write_pdf_blocks_on_template(1) \/ second_call(1)

TextSpec == TextInit /\ [][TextNext]_vars

\* ------------------------------------------------------ the date extractor
\* Pieces of the text OCR reads on the date raster.
EthText == <<"2", "0", "2", "5", "/", "0", "1", "/", "1", "5">>
EngText == <<"2", "0", "2", "3", "/", "J", "a", "n", "/", "1", "5">>
EthMisread == <<"2", " ", "0", "2", "5", "/", "0", "1", "/", "1", "5">>
EthMisreadTwice == <<"2", " ", "0", " ", "2", "5", "/", "0", "1", "/", "1", "5">>
EthShortDay == <<"2", "0", "2", "5", "/", "0", "1", "/", "1">>
EngDigitMonth == <<"2", "0", "2", "3", "/", "0", "1", "/", "1", "5">>
EngLongMonth == <<"2", "0", "2", "3", "/", "J", "a", "n", "u", "/", "1", "5">>
Bar == <<" ", "|", " ">>
LabelText == <<"D", "a", "t", "e", " ", "o", "f", " ", "I", "s", "s", "u", "e", " ">>
LabelUpper == <<"D", "A", "T", "E", " ", " ", "O", "F", " ", "I", "S", "S", "U", "E", ":", " ">>
NameLine == <<"N", "a", "m", "e">>

\* The date part of a line: the two dates well read, misread, or not there.
DateParts ==
    {EthMisread \o Bar \o EngText,
     EthText \o Bar \o EngText,
     EthMisreadTwice \o <<"|">> \o EngText,
     EthText \o <<" ">> \o EngText,
     EthShortDay \o Bar \o EngText,
     EthText \o Bar \o EngDigitMonth,
     EthText \o Bar \o EngLongMonth,
     EthText,
     <<>>}

\* A line with or without the label before the date part.
DateLines ==
    {label \o part \o trail : label \in {<<>>, LabelText, LabelUpper},
                              part \in DateParts, trail \in {<<>>, <<" ">>}}

\* What OCR gives for the raster: the date line, possibly after other lines
\* (one of them with the label too) and before others.
OcrTexts ==
    {Join(before \o <<line>> \o after, "\n") :
        before \in {<<>>, <<NameLine>>, <<LabelText, <<>>>>},
        line \in DateLines,
        after \in {<<>>, <<<<" ", " ">>>>, <<NameLine>>}}

\* extract_dates_from_image(image_path) called on a raster whose OCR text is
\* known: everything is in one try whose except returns (None, None).
extract_dates_from_text(j) ==
    LET r == job[j].run IN
    /\ job[j].pc = "standalone"
    /\ r.pc = "extract_dates"
    /\ \E ok \in BOOLEAN :
         /\ Pay(<<ok>>)
         /\ IF ok
            THEN SetRun(j, [r EXCEPT !.pc = "returned", !.found = ExtractDates(r.mode, r.ocr)])
            ELSE SetRun(j, [Fault(r, "date_ocr_raised") EXCEPT !.pc = "returned",
                                                            !.found = <<None, None>>])
    /\ UNCHANGED <<replies, templates, state, user_data, workspace, temp>>

DateInit ==
    /\ replies = NoReplies
    /\ budget = 0 - 1
    /\ templates = TEMPLATE_FILES
    /\ state = [u \in Users |-> "END"]
    /\ user_data = [u \in Users |-> "none"]
    /\ temp = [exists |-> TRUE, img |-> [i \in 1..MaxExtract |-> IF i <= MinImages THEN 1 ELSE 0]]
    /\ workspace = [k \in WsKeys |-> NoDir]
    /\ \E m \in {"black", "color"}, text \in OcrTexts :
         job = [j \in JobIds |->
                  IF j = 1
                  THEN [FreeJob EXCEPT !.pc = "standalone",
                                       !.run = [StartRun(m, TRUE) EXCEPT !.pc = "extract_dates",
                                                                         !.ocr = text]]
                  ELSE FreeJob]

DateNext == extract_dates_from_text(1)

DateSpec == DateInit /\ [][DateNext]_vars

\* ------------------------------------------------------------------ bot.py
\* The text of the key as it is.
Lower_Mutant(text) == text

\* str.lower() of the keyboard texts the Regex filter lets through.
Lower(text) == CASE text = "Color" -> "color"
                 [] text = "Black" -> "black"
                 [] OTHER          -> "both"

\* Every user is let in.
is_authorized_Mutant(u) == TRUE

is_authorized(u) == u \in AUTHORIZED_USERS

\* cleanup_workspace: rmtree when the directory exists; an error is logged
\* and swallowed (the directory is then still there).
cleanup_workspace(k, rm_ok) ==
    IF workspace[k].exists /\ rm_ok THEN [workspace EXCEPT ![k] = NoDir] ELSE workspace

\* /start: the entry point, taken only outside a conversation.  A reply that
\* raises leaves the conversation where it was.
start(u) ==
    /\ state[u] = "END"
    /\ \E reply_ok \in BOOLEAN :
         /\ Pay(<<reply_ok>>)
         /\ state' = [state EXCEPT ![u] =
                         IF ~is_authorized(u) THEN "END"
                         ELSE IF ~(TEMPLATE_FILES \subseteq templates) THEN "END"
                         ELSE IF reply_ok THEN "CHOOSING" ELSE "END"]
         /\ IF ~is_authorized(u) THEN Refuse(u, "unauthorized", reply_ok) ELSE UNCHANGED replies
    /\ UNCHANGED <<templates, user_data, workspace, temp, job>>

\* choice: records the lower-cased choice, then asks for the PDF.
choice(u) ==
    /\ state[u] = "CHOOSING"
    /\ \E text \in {"Color", "Black", "Both"}, reply_ok \in BOOLEAN :
         /\ Pay(<<reply_ok>>)
         /\ IF ~is_authorized(u)
            THEN /\ state' = [state EXCEPT ![u] = "END"]
                 /\ Refuse(u, "unauthorized", reply_ok)
                 /\ UNCHANGED user_data
            ELSE /\ user_data' = [user_data EXCEPT ![u] = Lower(text)]
                 /\ state' = [state EXCEPT ![u] = IF reply_ok THEN "PDF_UPLOAD" ELSE "CHOOSING"]
                 /\ UNCHANGED replies
    /\ UNCHANGED <<templates, workspace, temp, job>>

\* /cancel: the fallback of every conversation state.
cancel(u) ==
    /\ state[u] # "END"
    /\ \E reply_ok \in BOOLEAN :
         /\ Pay(<<reply_ok>>)
         /\ IF ~is_authorized(u)
            THEN /\ state' = [state EXCEPT ![u] = "END"]
                 /\ Refuse(u, "unauthorized", reply_ok)
                 /\ UNCHANGED user_data
            ELSE IF reply_ok
            THEN /\ state' = [state EXCEPT ![u] = "END"]
                 /\ user_data' = [user_data EXCEPT ![u] = "none"]
                 /\ UNCHANGED replies
            ELSE UNCHANGED <<state, user_data, replies>>
    /\ UNCHANGED <<templates, workspace, temp, job>>

\* The job slot an accepted upload takes.
FreeSlot == CHOOSE j \in JobIds : job[j].pc = "free" /\ \A i \in JobIds : job[i].pc = "free" => j <= i

\* handle_pdf, one upload from user u in PDF_UPLOAD.  After the checks:
\* setup_user_workspace (makedirs, copy the templates that exist), then in a
\* try the download, the two replies and create_task; its except replies,
\* cleans the workspace and ends the conversation.
handle_pdf(u) ==
    /\ state[u] = "PDF_UPLOAD"
    /\ \E j \in JobIds : job[j].pc = "free"
    /\ \E mime \in {"application/pdf", "other"}, too_large \in BOOLEAN, fid \in FileIds,
          copy_ok \in BOOLEAN, download_ok \in BOOLEAN, reply_ok \in BOOLEAN,
          err_reply_ok \in BOOLEAN, rm_ok \in BOOLEAN :
         /\ Pay(<<copy_ok, download_ok, reply_ok, err_reply_ok, rm_ok>>)
         /\ LET j   == FreeSlot
                k   == <<u, fid>>
                new == [FreeJob EXCEPT !.user = u, !.ws = k, !.choice = user_data[u]]
                dir == [exists |-> TRUE, files |-> workspace[k].files]
            IN
            IF ~is_authorized(u)
            THEN /\ state' = [state EXCEPT ![u] = "END"]
                 /\ Refuse(u, "unauthorized", reply_ok)
                 /\ UNCHANGED <<user_data, workspace, job>>
            ELSE IF mime # "application/pdf"
            THEN \* filters.Document.PDF keeps the message from the handler
                 UNCHANGED <<state, user_data, workspace, job, replies>>
            ELSE IF too_large
            THEN \* the reply; return PDF_UPLOAD
                 /\ Refuse(u, "too_large", reply_ok)
                 /\ UNCHANGED <<state, user_data, workspace, job>>
            ELSE IF ~copy_ok /\ templates # {}
            THEN \* shutil.copy2 raises out of setup_user_workspace and the handler
                 /\ workspace' = [workspace EXCEPT ![k] = dir]
                 /\ job' = [job EXCEPT ![j] = [new EXCEPT !.pc = "done", !.paths = templates, !.exc = TRUE]]
                 /\ UNCHANGED <<state, user_data, replies>>
            ELSE IF download_ok /\ reply_ok
            THEN /\ workspace' = [workspace EXCEPT ![k] =
                                     [dir EXCEPT !.files = @ \cup templates \cup {"input_pdf"}]]
                 /\ job' = [job EXCEPT ![j] = [new EXCEPT !.pc = "begin", !.paths = templates,
                                                          !.mode = IF user_data[u] = "black" THEN "black" ELSE "color"]]
                 /\ user_data' = [user_data EXCEPT ![u] = "none"]
                 /\ state' = [state EXCEPT ![u] = "END"]
                 /\ UNCHANGED replies
            ELSE IF err_reply_ok
            THEN \* except: reply, cleanup_workspace, return END
                 /\ workspace' = [workspace EXCEPT ![k] =
                                     IF rm_ok THEN NoDir
                                     ELSE [dir EXCEPT !.files = @ \cup templates
                                                          \cup (IF download_ok THEN {"input_pdf"} ELSE {})]]
                 /\ job' = [job EXCEPT ![j] = [new EXCEPT !.pc = "done", !.paths = templates,
                                                          !.cleaned = {"workspace"}]]
                 /\ state' = [state EXCEPT ![u] = "END"]
                 /\ UNCHANGED <<user_data, replies>>
            ELSE \* the reply of the except block raises: nothing after it runs
                 /\ workspace' = [workspace EXCEPT ![k] =
                                     [dir EXCEPT !.files = @ \cup templates
                                                     \cup (IF download_ok THEN {"input_pdf"} ELSE {})]]
                 /\ job' = [job EXCEPT ![j] = [new EXCEPT !.pc = "done", !.paths = templates,
                                                          !.exc = TRUE]]
                 /\ UNCHANGED <<state, user_data, replies>>
    /\ UNCHANGED <<templates, temp>>

\* A template file is removed from the bot's directory while the bot runs.
remove_template(f) ==
    /\ f \in templates
    /\ templates' = templates \ {f}
    /\ UNCHANGED <<replies, state, user_data, workspace, temp, job, budget>>

\* --------------------------------------------------------- process_pdf_task
SetJob(j, r) == job' = [job EXCEPT ![j] = r]

\* A message delivered to the chat.
Say(r, kind, m) == [r EXCEPT !.msgs = @ \cup {<<kind, m>>}]

\* A send_message that raises inside the outer try: control goes to the
\* outer except.
ToCritical(r) == [r EXCEPT !.pc = "crit"]

\* The black block entered after the color block whatever was chosen.
NextBlock_Mutant(r) ==
    IF r.mode = "color"
    THEN [r EXCEPT !.pc = "begin", !.mode = "black"]
    ELSE [r EXCEPT !.pc = "send"]

\* Where the task goes when a mode is done with: the black block after the
\* color block when both were chosen, else the sending.
NextBlock(r) ==
    IF r.mode = "color" /\ r.choice = "both"
    THEN [r EXCEPT !.pc = "begin", !.mode = "black"]
    ELSE [r EXCEPT !.pc = "send"]

\* `if user_choice in [mode, "both"]`: the status message, then the call of
\* main_process_<mode> on a worker thread.  Reading workspace_paths for a
\* template that was not staged is a KeyError, caught by the mode's except.
begin_mode(j) ==
    LET r == job[j] IN
    /\ r.pc = "begin"
    /\ \E send_ok \in BOOLEAN :
         /\ Pay(<<send_ok>>)
         /\ IF ~send_ok
            THEN SetJob(j, ToCritical(r))
            ELSE IF TEMPLATE_FILES \subseteq r.paths
            THEN SetJob(j, [Say(r, "start", r.mode) EXCEPT !.pc = "run",
                                                           !.ran = @ \cup {r.mode},
                                                           !.run = StartRun(r.mode, FALSE)])
            ELSE SetJob(j, [Say(r, "start", r.mode) EXCEPT !.pc = "err"])
    /\ UNCHANGED <<replies, templates, state, user_data, workspace, temp>>

\* The worker thread runs main_process while the event loop serves the
\* other jobs.
run_mode(j) ==
    /\ job[j].pc = "run"
    /\ main_process(j)

\* The files `if os.path.exists(...)` appends, merged before framed.
Existing(k, m) ==
    (IF HasFile(k, Merged(m)) THEN <<Merged(m)>> ELSE <<>>)
        \o (IF HasFile(k, Framed(m)) THEN <<Framed(m)>> ELSE <<>>)

\* The success message of a mode, sent when main_process has returned.
Finished(r) == Say(r, "finished", r.mode)

\* main_process has returned or raised.  Returned: the "finished" message,
\* then the existing output files are appended; a raise of the call or of
\* the message goes to the mode's except.
end_mode(j) ==
    LET r == job[j]
        q == [r EXCEPT !.run   = NoRun,
                       !.out   = @ \cup r.run.wrote,
                       !.noout = IF Existing(r.ws, r.mode) = <<>> THEN @ \cup {r.mode} ELSE @,
                       !.good  = IF r.run.pc = "returned" /\ r.run.faults = {} THEN @ \cup {r.mode} ELSE @]
    IN
    /\ r.pc = "run"
    /\ r.run.pc \in {"returned", "raised"}
    /\ \E send_ok \in BOOLEAN :
         /\ Pay(<<send_ok>>)
         /\ IF r.run.pc = "raised"
            THEN SetJob(j, [q EXCEPT !.pc = "err"])
            ELSE IF ~send_ok
            THEN SetJob(j, [q EXCEPT !.pc = "err"])
            ELSE SetJob(j, NextBlock([Finished(q) EXCEPT !.files = @ \o Existing(r.ws, r.mode)]))
    /\ UNCHANGED <<replies, templates, state, user_data, workspace, temp>>

\* except Exception of a mode: log, then the error message of the mode.
mode_error(j) ==
    LET r == job[j] IN
    /\ r.pc = "err"
    /\ \E send_ok \in BOOLEAN :
         /\ Pay(<<send_ok>>)
         /\ IF send_ok
            THEN SetJob(j, NextBlock(Say(r, "error", r.mode)))
            ELSE SetJob(j, ToCritical(r))
    /\ UNCHANGED <<replies, templates, state, user_data, workspace, temp>>

\* `if output_files_to_send:` the announcement, else the could-not-generate
\* message.
send_outputs(j) ==
    LET r == job[j] IN
    /\ r.pc = "send"
    /\ \E send_ok \in BOOLEAN :
         /\ Pay(<<send_ok>>)
         /\ IF ~send_ok
            THEN SetJob(j, ToCritical(r))
            ELSE IF r.files # <<>>
            THEN SetJob(j, [Say(r, "sending", "") EXCEPT !.pc = "file", !.next = 1])
            ELSE SetJob(j, [Say(r, "none_generated", "") EXCEPT !.pc = "cleanup"])
    /\ UNCHANGED <<replies, templates, state, user_data, workspace, temp>>

\* The loop goes on with the next file, or leaves the try.
NextFile(r) ==
    IF r.next < Len(r.files)
    THEN [r EXCEPT !.next = @ + 1]
    ELSE [r EXCEPT !.pc = "cleanup"]

\* One round of `for file_path in output_files_to_send`: compress and send
\* in a try; its except warns the user (the warning is not guarded); its
\* finally removes the compressed copy.
send_file(j) ==
    LET r == job[j]
        f == r.files[r.next]
        t == [r EXCEPT !.tried = @ \cup {f}]
    IN
    /\ r.pc = "file"
    /\ \E send_ok \in BOOLEAN, warn_ok \in BOOLEAN :
         /\ Pay(<<send_ok, send_ok \/ warn_ok>>)
         /\ IF send_ok /\ HasFile(r.ws, f)
            THEN SetJob(j, NextFile([t EXCEPT !.sent = @ \cup {f}]))
            ELSE IF warn_ok
            THEN SetJob(j, NextFile(Say(t, "send_failed", "")))
            ELSE SetJob(j, ToCritical(t))
    /\ UNCHANGED <<replies, templates, state, user_data, workspace, temp>>

\* The outer except: log, then the critical-error message; when that raises
\* the exception leaves the coroutine after the finally.
critical(j) ==
    LET r == job[j] IN
    /\ r.pc = "crit"
    /\ \E send_ok \in BOOLEAN :
         /\ Pay(<<send_ok>>)
         /\ IF send_ok
            THEN SetJob(j, [Say(r, "critical", "") EXCEPT !.pc = "cleanup"])
            ELSE SetJob(j, [r EXCEPT !.pc = "cleanup", !.exc = TRUE])
    /\ UNCHANGED <<replies, templates, state, user_data, workspace, temp>>

\* The finally: cleanup_workspace(workspace_dir), then rmtree(".temp") when
\* it is a directory; both swallow their errors.
cleanup(j) ==
    LET r == job[j] IN
    /\ r.pc = "cleanup"
    /\ \E rm_ok \in BOOLEAN, rm_temp_ok \in BOOLEAN :
         /\ Pay(<<rm_ok, rm_temp_ok>>)
         /\ workspace' = cleanup_workspace(r.ws, rm_ok)
         /\ temp' = IF temp.exists /\ rm_temp_ok
                    THEN [exists |-> FALSE, img |-> [i \in 1..MaxExtract |-> 0]]
                    ELSE temp
    /\ SetJob(j, [r EXCEPT !.pc = IF r.exc THEN "done" ELSE "all_done",
                           !.cleaned = {"workspace", "temp"}])
    /\ UNCHANGED <<replies, templates, state, user_data>>

\* After the try statement: the closing message.
all_done(j) ==
    LET r == job[j] IN
    /\ r.pc = "all_done"
    /\ \E send_ok \in BOOLEAN :
         /\ Pay(<<send_ok>>)
         /\ IF send_ok
            THEN SetJob(j, [Say(r, "all_done", "") EXCEPT !.pc = "done"])
            ELSE SetJob(j, [r EXCEPT !.pc = "done", !.exc = TRUE])
    /\ UNCHANGED <<replies, templates, state, user_data, workspace, temp>>

process_pdf_task(j) ==
    \/ begin_mode(j)
    \/ run_mode(j)
    \/ end_mode(j)
    \/ mode_error(j)
    \/ send_outputs(j)
    \/ send_file(j)
    \/ critical(j)
    \/ cleanup(j)
    \/ all_done(j)

\* ------------------------------------------------------------------- the bot
\* The bot serving one conversation after another; the first upload it
\* accepts becomes the job that is followed (the other slots are switched
\* off), with any number of failures.
Init ==
    /\ replies = NoReplies
    /\ budget = 0 - 1
    /\ templates = TEMPLATE_FILES
    /\ state = [u \in Users |-> "END"]
    /\ user_data = [u \in Users |-> "none"]
    /\ workspace = [k \in WsKeys |-> NoDir]
    /\ temp = [exists |-> FALSE, img |-> [i \in 1..MaxExtract |-> 0]]
    /\ job = [j \in JobIds |-> IF j = 1 THEN FreeJob ELSE [FreeJob EXCEPT !.pc = "off"]]

Next ==
    \/ \E u \in Users : start(u) \/ choice(u) \/ handle_pdf(u) \/ cancel(u)
    \/ \E f \in TEMPLATE_FILES : remove_template(f)
    \/ \E j \in JobIds : process_pdf_task(j)

Spec == Init /\ [][Next]_vars

\* ------------------------------------------------------------ the handlers
\* The conversation handlers alone, their refusals recorded: every upload
\* that is accepted takes a job slot, and the dispatched tasks have not
\* started to run.
GateInit ==
    /\ replies = Recorded
    /\ budget = 0 - 1
    /\ templates = TEMPLATE_FILES
    /\ state = [u \in Users |-> "END"]
    /\ user_data = [u \in Users |-> "none"]
    /\ workspace = [k \in WsKeys |-> NoDir]
    /\ temp = [exists |-> FALSE, img |-> [i \in 1..MaxExtract |-> 0]]
    /\ job = [j \in JobIds |-> FreeJob]

GateNext ==
    \/ \E u \in Users : start(u) \/ choice(u) \/ handle_pdf(u) \/ cancel(u)
    \/ \E f \in TEMPLATE_FILES : remove_template(f)

GateSpec == GateInit /\ [][GateNext]_vars

\* ------------------------------------------------------- overlapping jobs
\* What handle_pdf leaves for an accepted upload: the staged workspace and
\* the dispatched task.
Staged == [exists |-> TRUE, files |-> TEMPLATE_FILES \cup {"input_pdf"}]

Dispatched(u, fid, c) ==
    [FreeJob EXCEPT !.pc = "begin", !.user = u, !.ws = <<u, fid>>, !.choice = c,
                    !.paths = TEMPLATE_FILES,
                    !.mode = IF c = "black" THEN "black" ELSE "color"]

\* asyncio.create_task(process_pdf_task(...)) has been called for NJobs
\* uploads of the authorized user, each for one render mode, and none of
\* the tasks has run yet.  The file ids may coincide; the first one is 1.
OverlapInit ==
    /\ replies = NoReplies
    /\ budget = MaxFaults
    /\ templates = TEMPLATE_FILES
    /\ state = [u \in Users |-> "END"]
    /\ user_data = [u \in Users |-> "none"]
    /\ temp = [exists |-> FALSE, img |-> [i \in 1..MaxExtract |-> 0]]
    /\ \E c \in [JobIds -> {"color", "black"}], fid \in [JobIds -> FileIds] :
         /\ fid[1] = 1
         /\ workspace = [k \in WsKeys |-> IF \E j \in JobIds : k = <<1, fid[j]>> THEN Staged ELSE NoDir]
         /\ job = [j \in JobIds |-> Dispatched(1, fid[j], c[j])]

OverlapNext == \E j \in JobIds : process_pdf_task(j)

OverlapSpec == OverlapInit /\ [][OverlapNext]_vars

\* ================================================================ claims
Ended(r) == r.pc \in {"returned", "raised"}

\* C1: when extract_images returns fewer than 4 paths (a page that cannot be
\* read gives none), main_process returns without raising, has entered no
\* stage after the extraction and has written neither output file.
C1_TooFewImagesNoOutput ==
    \A j \in JobIds :
        LET r == job[j].run IN
        (r.stages # <<>> /\ "makedirs_raised" \notin r.faults /\ r.images < 4)
            => /\ r.pc = "returned"
               /\ r.stages = <<"extract">>
               /\ r.wrote = {}

C1_Witness ==
    \E j \in JobIds :
        LET r == job[j].run IN
        /\ r.pc = "returned"
        /\ r.doc = "open"
        /\ r.stages = <<"extract">>
        /\ r.images = 3

\* C2 (as claimed): while a call of main_process still has extracted rasters
\* to read, each of them is in the scratch directory as this call wrote it:
\* no other job has overwritten it or removed the directory.
C2_ScratchUsedByOneRun ==
    \A j \in JobIds :
        \A i \in StillReads(job[j].run) :
            temp.exists /\ temp.img[i] = j

\* C3 (as claimed): a job that has ended after its workspace directory was
\* created has attempted to delete that directory.
C3_WorkspaceDeletionAttempted ==
    \A j \in JobIds :
        job[j].pc = "done" => "workspace" \in job[j].cleaned

\* C4 (as claimed): a call in which nothing went wrong but OCR raising, in
\* the region stage or in the date stage, ends by returning with the merged
\* output written.
C4_OcrErrorNeverAborts ==
    \A j \in JobIds :
        LET r == job[j].run IN
        (/\ Ended(r)
         /\ r.faults # {}
         /\ r.faults \subseteq {"region_ocr_raised", "date_ocr_raised"})
            => /\ r.pc = "returned"
               /\ Merged(r.mode) \in r.wrote

\* The output files of the modes in ms.
OutputsOf(ms) == {Merged(m) : m \in ms} \cup {Framed(m) : m \in ms}

\* The modes a choice asks for.
Requested(c) == CASE c = "both"  -> {"color", "black"}
                  [] c = "color" -> {"color"}
                  [] c = "black" -> {"black"}
                  [] OTHER       -> {}

\* C5 (as claimed): for the choice 'both', once the color call has been made
\* and the task has reached its cleanup, the black call has been made too and
\* the sending of every output file present in the workspace was attempted.
C5_BothModesAndEveryFileSent ==
    \A j \in JobIds :
        (job[j].pc = "cleanup" /\ job[j].choice = "both" /\ "color" \in job[j].ran)
            => /\ "black" \in job[j].ran
               /\ \A f \in OutputsOf({"color", "black"}) :
                      HasFile(job[j].ws, f) => f \in job[j].tried

\* C6: when the calls of a job are over and each requested mode's call has
\* returned without a stage failure, the files the job's calls have written
\* are the merged and the framed file of each requested mode and no other.
C6_ExactOutputSet ==
    \A j \in JobIds :
        (/\ job[j].pc \in {"send", "file", "cleanup", "all_done", "done"}
         /\ Requested(job[j].choice) # {}
         /\ Requested(job[j].choice) \subseteq job[j].good)
            => /\ job[j].out = OutputsOf(Requested(job[j].choice))
               /\ Cardinality(job[j].out) = 2 * Cardinality(Requested(job[j].choice))

C6_Witness ==
    \E j \in JobIds :
        /\ job[j].pc = "all_done"
        /\ job[j].choice = "both"
        /\ job[j].good = {"color", "black"}
        /\ Cardinality(job[j].out) = 4

\* C7 (as claimed): a slot is taken by an upload (its workspace created, its
\* task dispatched) only when both templates were present as the upload was
\* handled.
C7_NoJobWithoutTemplates ==
    \A j \in JobIds :
        job[j].pc \notin {"free", "off"} => TEMPLATE_FILES \subseteq job[j].paths

\* C8 (as claimed): a mode whose call ended with neither of its output files
\* present is never announced to the user as finished.
C8_FailedModeNotAnnouncedFinished ==
    \A j \in JobIds :
        \A m \in job[j].noout : <<"finished", m>> \notin job[j].msgs

\* C9: a failed save of the merged output, and a failure while producing or
\* saving the framed output, never leave main_process as an exception: the
\* call goes on and returns, and the file concerned is not written.
C9_FinisherFailureReturns ==
    \A j \in JobIds :
        LET r == job[j].run IN
        /\ "save_failed" \in r.faults
              => r.pc \in {"flip", "returned"} /\ Merged(r.mode) \notin r.wrote
        /\ "flip_failed" \in r.faults
              => r.pc = "returned" /\ Framed(r.mode) \notin r.wrote

C9_Witness ==
    \E j \in JobIds :
        LET r == job[j].run IN
        /\ r.pc = "returned"
        /\ {"save_failed", "flip_failed"} \subseteq r.faults
        /\ r.wrote = {}

\* C10 (as claimed): a call in which nothing went wrong but the date stage
\* (date OCR raising, no date pattern found, a date failing to render) ends
\* by returning with the merged output written.
C10_DateStageNeverRaises ==
    \A j \in JobIds :
        LET r == job[j].run IN
        (/\ Ended(r)
         /\ r.faults # {}
         /\ r.faults \subseteq {"date_ocr_raised", "date_not_found", "date_render_raised"})
            => /\ r.pc = "returned"
               /\ Merged(r.mode) \in r.wrote

\* C11 (as claimed): a failure while the text blocks of the page are read
\* or drawn does not leave main_process as an exception.
C11_BlockFailureNeverRaises ==
    \A j \in JobIds :
        LET r == job[j].run IN
        "blocks_raised" \in r.faults => r.pc # "raised"

\* ------------------------------------------------- text block stage claims
\* The call has been through the text block stage and drew what it draws.
BlocksDrawn(r) ==
    /\ \E i \in DOMAIN r.stages : r.stages[i] = "blocks"
    /\ "blocks_raised" \notin r.faults

\* The draw.text calls made for block idx.
OpsOf(canvas, idx) == SelectSeq(canvas, LAMBDA op : op.block = idx)

\* A text without its spaces, tabs and line breaks, wherever they occur.
WithoutWhitespace(text) == SelectSeq(text, LAMBDA ch : ch \notin Whitespace)

\* C12 (as claimed): for every text of block 36 the FAN code drawn at
\* (1677, 511) is made of the characters at positions 1,2,4,5,8,9,13 of the
\* text with all its whitespace removed, and nothing is drawn for it when
\* that text has fewer than 14 characters.
C12_FanFromTextWithoutWhitespace ==
    \A j \in JobIds :
        LET r       == job[j].run
            cleaned == WithoutWhitespace(r.page.text[36])
        IN  (BlocksDrawn(r) /\ 36 < r.page.len)
            => OpsOf(r.canvas, 36) =
                  IF Len(cleaned) >= 14
                  THEN <<TextOp(36, 1677, 511, FanDigits(cleaned), CharWidth)>>
                  ELSE <<>>

\* The cleaned block 36 text of the example.
FanExample == SubSeq(FanBase, 1, 14)

\* C13 (as claimed): for the cleaned block 36 text "A1B2C3D4E5F6G7" the
\* characters picked are 1,B,C,4,5,6,7 and the FAN code drawn is "1BC4567".
C13_FanExample ==
    \A j \in JobIds :
        LET r == job[j].run IN
        (BlocksDrawn(r) /\ 36 < r.page.len /\ FanCleaned(r.page.text[36]) = FanExample)
        => OpsOf(r.canvas, 36) =
              <<TextOp(36, 1677, 511, <<"1", "B", "C", "4", "5", "6", "7">>, CharWidth)>>

\* C13 (amended): for the cleaned block 36 text "A1B2C3D4E5F6G7" the
\* characters at positions 1,2,4,5,8,9,13 are 1,B,C,3,E,5,7 and the FAN code
\* drawn is "1BC3E57".
C13_FanExamplePicks ==
    \A j \in JobIds :
        LET r == job[j].run IN
        (BlocksDrawn(r) /\ 36 < r.page.len /\ FanCleaned(r.page.text[36]) = FanExample)
        => OpsOf(r.canvas, 36) =
              <<TextOp(36, 1677, 511, <<"1", "B", "C", "3", "E", "5", "7">>, CharWidth)>>

\* The example text has been read from block 36 and its FAN code drawn.
C13_Witness ==
    \E j \in JobIds :
        LET r == job[j].run IN
        /\ BlocksDrawn(r)
        /\ 36 < r.page.len
        /\ r.page.text[36] = FanExample
        /\ OpsOf(r.canvas, 36) # <<>>

\* The wrapping blocks.
WrapBlocks == {34, 35}

\* The mapping table entry of block idx as the table is written.
Entry(idx) == block_to_png_mapping[CHOOSE k \in DOMAIN block_to_png_mapping :
                                      block_to_png_mapping[k].idx = idx]

\* The lines of block idx that put something on the canvas.
LinesOf(canvas, idx) == SelectSeq(OpsOf(canvas, idx), LAMBDA op : op.text # <<>>)

\* Block idx of the page is in range and not empty once stripped.
Present(page, idx) == idx < page.len /\ Strip(page.text[idx]) # <<>>

\* C15 (as claimed): in every variant the number of lines drawn for block
\* 34 and for block 35 is at most the height of its destination divided by
\* the line height, rounded down.
C15_LineCount ==
    \A j \in JobIds, idx \in WrapBlocks :
        LET r     == job[j].run
            lines == LinesOf(r.canvas, idx)
        IN  (BlocksDrawn(r) /\ lines # <<>>)
            => Len(lines) <= Entry(idx).h \div LineHeightOf(lines[1].cw)

\* C16 (as claimed): in every variant no line drawn for block 34 or block
\* 35 goes past x = 1335, a single word wider than the room included.
C16_RightMargin ==
    \A j \in JobIds, idx \in WrapBlocks :
        LET r   == job[j].run
            ops == OpsOf(r.canvas, idx)
        IN  BlocksDrawn(r)
            => \A i \in DOMAIN ops : ops[i].x + Width(ops[i].text, ops[i].cw) <= 1335

\* C17 (as claimed): in every variant block 35 is drawn from y = 385 exactly
\* when block 34 is in range, not empty once stripped and has a line break
\* in its stripped text, and from y = 362 otherwise.
C17_Block35Origin ==
    \A j \in JobIds :
        LET r      == job[j].run
            ops    == OpsOf(r.canvas, 35)
            text34 == Strip(r.page.text[34])
        IN  (BlocksDrawn(r) /\ ops # <<>>)
            => ops[1].y = IF Present(r.page, 34) /\ (\E i \in DOMAIN text34 : text34[i] = "\n")
                          THEN 385 ELSE 362

C19_ShiftWheneverWrapped ==
    \A j \in JobIds :
        LET r   == job[j].run
            ops == OpsOf(r.canvas, 35)
        IN  (BlocksDrawn(r) /\ Len(LinesOf(r.canvas, 34)) > 1 /\ ops # <<>>)
            => ops[1].y = 385

\* The characters other than whitespace of the lines drawn, in order.
RECURSIVE DrawnText(_)
DrawnText(ops) == IF ops = <<>> THEN <<>> ELSE WithoutWhitespace(Head(ops).text) \o DrawnText(Tail(ops))

\* C20 (as claimed): in every variant a token that does not fit starts a
\* new line, so that, unless lines were cut by the line cap, the lines drawn
\* for a wrapping block hold every token of its text, in order.
C20_NoTokenDiscarded ==
    \A j \in JobIds, idx \in WrapBlocks :
        LET r   == job[j].run
            ops == OpsOf(r.canvas, idx)
        IN  (BlocksDrawn(r) /\ ops # <<>> /\ Len(ops) < Entry(idx).h \div LineHeightOf(ops[1].cw))
            => DrawnText(ops) = WithoutWhitespace(r.page.text[idx])

\* ------------------------------------------------------------ date claims
\* extract_dates_from_image has returned what it found in the OCR text.
DatesRead(r) == r.found # <<>> /\ "date_ocr_raised" \notin r.faults

\* sub occurs in s.
Contains(s, sub) == \E i \in 1..(Len(s) - Len(sub) + 1) : SubSeq(s, i, i + Len(sub) - 1) = sub

\* s holds a YYYY/NN/NN token followed by a YYYY/Alpha3/NN token.
HasPair(s) ==
    \E i \in DOMAIN s, k \in DOMAIN s :
        /\ FitsAt(s, i, EthShape)
        /\ k >= i + Len(EthShape)
        /\ FitsAt(s, k, EngShape)

NoCanvasFaults == {"portrait_failed", "region_failed", "region_ocr_raised"}

\* The stage s is among those the call has entered.
Entered(r, s) == \E i \in DOMAIN r.stages : r.stages[i] = s

\* C21: when the portrait compositor or the region compositor returns no
\* canvas, the call returns: no date stage, no text block stage and no
\* finisher run, and neither output file is written.
C21_NoCanvasEndsRun ==
    \A j \in JobIds :
        LET r == job[j].run IN
        r.faults \cap NoCanvasFaults # {}
        => /\ r.pc = "returned"
           /\ ~Entered(r, "dates") /\ ~Entered(r, "blocks") /\ ~Entered(r, "finisher")
           /\ r.wrote = {}

\* The region compositor gave no canvas after the portrait stage succeeded.
C21_Witness ==
    \E j \in JobIds :
        LET r == job[j].run IN
        /\ r.faults \cap NoCanvasFaults # {}
        /\ r.stages = <<"extract", "portrait", "region">>
        /\ r.pc = "returned"

\* C22 (as claimed): in every variant a call that reaches the finisher has
\* entered the stages in the order extraction, portrait, region, dates, text
\* blocks, finisher, none of them skipped.
C22_StageOrder ==
    \A j \in JobIds :
        LET r == job[j].run IN
        Entered(r, "finisher")
        => r.stages = <<"extract", "portrait", "region", "dates", "blocks", "finisher">>

\* C23 (as claimed): on every path by which main_process returns after the
\* document was opened (fewer than 4 rasters, no canvas, completion) the
\* document has been closed.
C23_ClosedOnReturn ==
    \A j \in JobIds :
        LET r == job[j].run IN
        (r.pc = "returned" /\ r.doc # "unopened") => r.doc = "closed"

\* What degrades the output without failing the call: a region whose OCR
\* text is empty, no date found, the bold font not loading.
Recoverable == {"ocr_empty", "date_not_found", "font_fallback"}

\* The place of block idx in the mapping table (block 36 comes after it).
TablePlace(idx) ==
    IF idx = 36 THEN Len(block_to_png_mapping) + 1
    ELSE CHOOSE k \in DOMAIN block_to_png_mapping : block_to_png_mapping[k].idx = idx

\* The mapped blocks.
MappedIds == {block_to_png_mapping[k].idx : k \in DOMAIN block_to_png_mapping}

C25_ExtractedPrefix ==
    \A j \in JobIds :
        LET r == job[j].run IN
        (job[j].pc = "standalone" /\ Entered(r, "extract") /\ "makedirs_raised" \notin r.faults)
        => /\ Len(r.rasters) <= 5
           /\ Len(r.rasters) <= r.embedded
           /\ \A i \in DOMAIN r.rasters : r.rasters[i] = [path |-> i, image |-> i]
           /\ "extract_error" \notin r.faults => Len(r.rasters) = Min(5, r.embedded)

\* A page with more than 5 embedded images has been extracted.
C25_Witness ==
    \E j \in JobIds :
        LET r == job[j].run IN
        /\ Entered(r, "extract")
        /\ r.embedded > 5
        /\ Len(r.rasters) = 5

\* The output files of the call's mode that are in its directory.
OutputsPresent(j) == workspace[Ws(j)].files \cap {Merged(job[j].run.mode), Framed(job[j].run.mode)}

\* C29: in a directory that held neither output file before the call, once
\* main_process has returned the framed output is there only if the merged
\* output is: a merged save that failed leaves no framed output.
C29_FramedOnlyWithMerged ==
    \A j \in JobIds :
        LET r == job[j].run IN
        (job[j].pc = "standalone" /\ r.pc = "returned" /\ OutputsPresent(j) \subseteq r.wrote)
        => (Framed(r.mode) \in OutputsPresent(j) => Merged(r.mode) \in OutputsPresent(j))

\* The merged save failed in a directory with the A4 template and no output
\* file, and the call has returned.
C29_Witness ==
    \E j \in JobIds :
        LET r == job[j].run IN
        /\ job[j].pc = "standalone"
        /\ r.pc = "returned"
        /\ "save_failed" \in r.faults
        /\ HasFile(Ws(j), "a4")
        /\ OutputsPresent(j) = {}

\* ------------------------------------------------------------- bot claims
\* The task of job j has been dispatched and has not reached its cleanup.
Working(j) == job[j].pc \in {"begin", "run", "err", "send", "file", "crit"}

\* The workspace of job j holds what was staged for it and what its calls
\* have written.
WorkspaceIntact(j) ==
    /\ workspace[Ws(j)].exists
    /\ Staged.files \subseteq workspace[Ws(j)].files
    /\ job[j].out \subseteq workspace[Ws(j)].files

\* C26 (as claimed): two jobs alive at the same time have distinct workspace
\* directories, so that the cleanup of one never deletes the input PDF, the
\* staged templates or the output files of another that is still running.
C26_WorkspacePerJob ==
    /\ \A j, k \in JobIds : (j # k /\ Working(j) /\ Working(k)) => Ws(j) # Ws(k)
    /\ \A j \in JobIds : Working(j) => WorkspaceIntact(j)

\* C27: a user who is not in AUTHORIZED_USERS never gets a conversation
\* past its end, a recorded choice, a workspace or a job, whatever handlers
\* the user's messages reach.
C27_UnauthorizedNoEffect ==
    \A u \in Users \ AUTHORIZED_USERS :
        /\ state[u] = "END"
        /\ user_data[u] = "none"
        /\ \A fid \in FileIds : ~workspace[<<u, fid>>].exists
        /\ \A j \in JobIds : job[j].pc \notin {"free", "off"} => job[j].user # u

\* A user who is not authorized has been refused while an authorized user
\* has a job dispatched.
C27_Witness ==
    /\ \E u \in Users \ AUTHORIZED_USERS : <<u, "unauthorized">> \in replies.said
    /\ \E j \in JobIds : job[j].pc = "begin"

\* The choices the keyboard offers, as recorded.
Choices == {"color", "black", "both"}

\* C28: an upload refused for its size creates no workspace, dispatches no
\* task and leaves the conversation in PDF_UPLOAD with the choice as it was
\* (an upload that is not a PDF does not reach the handler); a task is
\* dispatched only from PDF_UPLOAD, with the choice recorded there, one of
\* color, black, both, and one task per upload.
C28_UploadGate ==
    [][ /\ \A u \in Users :
             (<<u, "too_large">> \in replies'.said \ replies.said)
             => /\ state[u] = "PDF_UPLOAD"
                /\ <<state', user_data', workspace', job'>> = <<state, user_data, workspace, job>>
        /\ \A j \in JobIds :
             (job[j].pc = "free" /\ job'[j].pc = "begin")
             => /\ state[job'[j].user] = "PDF_UPLOAD"
                /\ job'[j].choice = user_data[job'[j].user]
                /\ job'[j].choice \in Choices
                /\ \A k \in JobIds \ {j} : job'[k] = job[k]
      ]_vars

\* An upload was refused for its size and the conversation is still in
\* PDF_UPLOAD with its choice; an earlier upload was dispatched.
C28_Witness ==
    \E u \in AUTHORIZED_USERS :
        /\ <<u, "too_large">> \in replies.said
        /\ state[u] = "PDF_UPLOAD"
        /\ user_data[u] \in Choices
        /\ \E j \in JobIds : job[j].pc = "begin" /\ job[j].user = u

\* ------------------------------------------------------ date pair claims
\* C30: extract_dates_from_image returns two dates or two nulls, never one
\* date and one null, for every OCR text and when OCR raises.
C30_BothOrNeither ==
    \A j \in JobIds :
        LET r == job[j].run IN
        r.found # <<>> => /\ Len(r.found) = 2
                          /\ (r.found[1] = None) <=> (r.found[2] = None)

\* flippedcolor has read a first date with no second date after it on the
\* labelled line, and returned two nulls.
C30_Witness ==
    \E j \in JobIds :
        LET r      == job[j].run
            target == TargetLine(r.mode, r.ocr)
        IN  /\ r.mode = "color"
            /\ DatesRead(r)
            /\ target # <<>>
            /\ \E i \in DOMAIN target[1] : FitsAt(target[1], i, EthShape)
            /\ r.found = <<None, None>>

====
